---- MODULE Spec2Model ----
(***************************************************************************)
(* git-timetable: one run of main() in src/main.rs.                        *)
(*                                                                         *)
(* Representation.                                                         *)
(*  - Option<T> and Result<T> are sequences of length at most one:         *)
(*    <<>> is None / Err and <<v>> is Some(v) / Ok(v).                     *)
(*  - Strings the program looks into (date arguments, author strings, the  *)
(*    author filter) are tuples of one-character strings; strings that     *)
(*    are only carried and compared whole (paths, branch names, the        *)
(*    format, summaries, commit ids) are TLA+ strings.                     *)
(*  - Timestamps are i64 in the program.  The model checker's integers are *)
(*    32 bits wide, so the model uses the signed 32-bit range: every date  *)
(*    of the model is its true number of seconds since the epoch, and      *)
(*    TimeMax, the top of the range, stands for i64::MAX.  The program     *)
(*    does no arithmetic on timestamps, it only compares them and hands    *)
(*    them to chrono.                                                      *)
(*  - The repositories on disk (git2 is an external library) are a fixed   *)
(*    table of repositories and commits; the order in which a revwalk      *)
(*    visits the commits reachable from a tip is left open.                *)
(***************************************************************************)
EXTENDS Integers, Sequences, FiniteSets, TLC

VARIABLES
    opts,        \* Args: the parsed command line (line 121)
    pc,          \* position of the run in main / list_commits
    time_range,  \* main: time_range (line 125), [start, end]
    format,      \* main: format (line 127)
    commits,     \* main: commits (line 130)
    ri,          \* main: index of the repository argument being listed
    lc,          \* list_commits: commits (line 11)
    bi,          \* list_commits: index of the branch in the enumeration
    seen,        \* the revwalk of the current branch: commits yielded so far
    pi,          \* render: index of the next record to print
    cur,         \* render (daily): key of the group being printed
    out,         \* standard output: the lines printed so far
    err          \* the error main returned, if any

vars == <<opts, pc, time_range, format, commits, ri, lc, bi, seen, pi, cur, out, err>>

----------------------------------------------------------------------------
(* Bounds and constants *)

MaxRepos == 2

TimeMax == 2147483647

----------------------------------------------------------------------------
(* Strings as tuples of characters *)

Digits == {"0", "1", "2", "3", "4", "5", "6", "7", "8", "9"}

DigitVal(c) ==
    CASE c = "0" -> 0 [] c = "1" -> 1 [] c = "2" -> 2 [] c = "3" -> 3
      [] c = "4" -> 4 [] c = "5" -> 5 [] c = "6" -> 6 [] c = "7" -> 7
      [] c = "8" -> 8 [] c = "9" -> 9

AllDigits(s, i, n) == \A k \in i..(i + n - 1) : s[k] \in Digits

RECURSIVE Num(_, _, _)
Num(s, i, n) ==
    IF n = 0 THEN 0 ELSE Num(s, i, n - 1) * 10 + DigitVal(s[i + n - 1])

\* str::contains(&str): a literal, case-sensitive substring test.
Contains(a, f) ==
    \E i \in 1..(Len(a) + 1) :
        /\ i + Len(f) - 1 <= Len(a)
        /\ SubSeq(a, i, i + Len(f) - 1) = f

----------------------------------------------------------------------------
(* chrono: calendar arithmetic (proleptic Gregorian calendar, UTC) *)

IsLeap(y) == (y % 4 = 0 /\ y % 100 # 0) \/ y % 400 = 0

DaysInMonth(y, m) ==
    IF m = 2 THEN (IF IsLeap(y) THEN 29 ELSE 28)
    ELSE IF m \in {4, 6, 9, 11} THEN 30 ELSE 31

\* days since 1970-01-01 of a calendar date
DaysFromCivil(y, m, d) ==
    LET yy  == IF m <= 2 THEN y - 1 ELSE y
        era == yy \div 400
        yoe == yy - era * 400
        mp  == IF m > 2 THEN m - 3 ELSE m + 9
        doy == (153 * mp + 2) \div 5 + d - 1
        doe == yoe * 365 + yoe \div 4 - yoe \div 100 + doy
    IN  era * 146097 + doe - 719468

\* the calendar date of a day number
CivilFromDays(z0) ==
    LET z   == z0 + 719468
        era == z \div 146097
        doe == z - era * 146097
        yoe == (doe - doe \div 1460 + doe \div 36524 - doe \div 146096) \div 365
        doy == doe - (365 * yoe + yoe \div 4 - yoe \div 100)
        mp  == (5 * doy + 2) \div 153
        d   == doy - (153 * mp + 2) \div 5 + 1
        m   == IF mp < 10 THEN mp + 3 ELSE mp - 9
        y   == yoe + era * 400 + (IF m <= 2 THEN 1 ELSE 0)
    IN  [year |-> y, month |-> m, day |-> d]

\* NaiveDate::parse_from_str(s, "%Y-%m-%d") for the zero-padded form
\* YYYY-MM-DD; Ok(days since the epoch) or Err.
ParseYmd(s) ==
    IF /\ Len(s) = 10
       /\ AllDigits(s, 1, 4) /\ s[5] = "-"
       /\ AllDigits(s, 6, 2) /\ s[8] = "-"
       /\ AllDigits(s, 9, 2)
    THEN LET y == Num(s, 1, 4)
             m == Num(s, 6, 2)
             d == Num(s, 9, 2)
         IN  IF m \in 1..12 /\ d >= 1 /\ d <= DaysInMonth(y, m)
             THEN <<DaysFromCivil(y, m, d)>>
             ELSE <<>>
    ELSE <<>>

\* DateTime::parse_from_rfc3339(s).map(|dt| dt.timestamp()) for the form
\* YYYY-MM-DDTHH:MM:SS followed by Z or by a numeric offset +HH:MM / -HH:MM.
ParseRfc3339(s) ==
    IF /\ Len(s) \in {20, 25}
       /\ ParseYmd(SubSeq(s, 1, 10)) # <<>>
       /\ s[11] \in {"T", "t"}
       /\ AllDigits(s, 12, 2) /\ s[14] = ":"
       /\ AllDigits(s, 15, 2) /\ s[17] = ":"
       /\ AllDigits(s, 18, 2)
       /\ Num(s, 12, 2) < 24 /\ Num(s, 15, 2) < 60 /\ Num(s, 18, 2) < 60
       /\ IF Len(s) = 20
          THEN s[20] \in {"Z", "z"}
          ELSE /\ s[20] \in {"+", "-"}
               /\ AllDigits(s, 21, 2) /\ s[23] = ":" /\ AllDigits(s, 24, 2)
               /\ Num(s, 21, 2) < 24 /\ Num(s, 24, 2) < 60
    THEN LET days  == ParseYmd(SubSeq(s, 1, 10))[1]
             local == days * 86400 + Num(s, 12, 2) * 3600
                        + Num(s, 15, 2) * 60 + Num(s, 18, 2)
             off   == IF Len(s) = 20 THEN 0
                      ELSE (IF s[20] = "-" THEN -1 ELSE 1)
                             * (Num(s, 21, 2) * 3600 + Num(s, 24, 2) * 60)
         IN  <<local - off>>
    ELSE <<>>

\* parse_lenient (lines 95-104): RFC 3339 first, then a bare date at
\* 00:00:00 UTC; Err when both fail.
parse_lenient(s) ==
    LET dt == ParseRfc3339(s)
    IN  IF dt # <<>> THEN dt
        ELSE LET d == ParseYmd(s)
             IN  IF d # <<>> THEN <<d[1] * 86400>> ELSE <<>>

\* (mutant) a range whose start is after its end is refused
parse_time_range_Ordered(since, until) ==
    LET s == IF since # <<>> THEN parse_lenient(since[1]) ELSE <<0>>
        u == IF until # <<>> THEN parse_lenient(until[1]) ELSE <<TimeMax>>
    IN  IF s = <<>> \/ u = <<>> THEN <<>>
        ELSE IF s[1] > u[1] THEN <<>>
        ELSE <<[start |-> s[1], end |-> u[1]]>>

\* parse_time_range (lines 106-118): since is parsed first and its error
\* returned before until is looked at.  No check of start <= end.
parse_time_range(since, until) ==
    LET s == IF since # <<>> THEN parse_lenient(since[1]) ELSE <<0>>
    IN  IF s = <<>> THEN <<>>
        ELSE LET u == IF until # <<>> THEN parse_lenient(until[1])
                      ELSE <<TimeMax>>
             IN  IF u = <<>> THEN <<>>
                 ELSE <<[start |-> s[1], end |-> u[1]]>>

\* NaiveDateTime::from_timestamp_opt(secs, 0) (line 91): None when the
\* instant is outside chrono's range of years.  Every timestamp of the
\* 32-bit range is inside it except TimeMax, which stands for i64::MAX.
from_timestamp_opt(secs) ==
    IF secs >= TimeMax THEN <<>>
    ELSE <<[date |-> CivilFromDays(secs \div 86400),
            time |-> LET r == secs % 86400
                     IN  [hour |-> r \div 3600,
                          min  |-> (r % 3600) \div 60,
                          sec  |-> r % 60]]>>

----------------------------------------------------------------------------
(* The command line: the values Args::parse() can hand to main *)

SinceArgs ==
    { <<>>,
      << <<"n","o","t","-","a","-","d","a","t","e">> >>,
      << <<"2","0","2","4","-","0","1","-","1","6">> >> }

UntilArgs ==
    { <<>>,
      << <<"2","0","2","4","-","0","2","-","3","0">> >>,
      << <<"2","0","2","4","-","0","1","-","1","5","T","1","0",":","3","0",":","0","0","Z">> >>,
      << <<"2","0","2","4","-","0","1","-","1","6","T","1","2",":","0","0",":","0","0",
           "+","0","2",":","0","0">> >> }

FormatArgs == { <<>>, <<"flat">>, <<"daily">>, <<"json">> }

AuthorArgs == { <<>>, << <<>> >>, << <<"a","@","x">> >>, << <<"a","l","i","c","e">> >> }

Paths == {"a", "b", "f", "nogit", "x", "y"}

RepoArgs == UNION { [1..n -> Paths] : n \in 0..MaxRepos }

----------------------------------------------------------------------------
(* The repositories on disk, as git2 shows them *)

Alice == <<"A","l","i","c","e"," ","<","a","@","x",">">>
Bob   == <<"B","o","b"," ","<","b","@","x",">">>

CommitIds == {"c1", "c2", "c3", "c4", "c5", "c6"}

\* git2::Commit: time().seconds(), author().to_string(), summary(),
\* message(), and the parent links the revwalk follows.
Commit(c) ==
    CASE c = "c1" -> [date |-> 1705314600, author |-> Alice,
                      summary |-> <<"init">>, message |-> <<"init">>, parents |-> {}]
      [] c = "c2" -> [date |-> 1705363200, author |-> Bob,
                      summary |-> <<"fix">>, message |-> <<"fix">>, parents |-> {"c1"}]
      [] c = "c3" -> [date |-> 1705366800, author |-> Alice,
                      summary |-> <<>>, message |-> <<>>, parents |-> {"c1"}]
      [] c = "c4" -> [date |-> 1705363200, author |-> Bob,
                      summary |-> <<"port">>, message |-> <<"port">>, parents |-> {"c5"}]
      [] c = "c5" -> [date |-> -1, author |-> Alice,
                      summary |-> <<"old">>, message |-> <<"old">>, parents |-> {}]
      [] c = "c6" -> [date |-> TimeMax, author |-> Alice,
                      summary |-> <<"far">>, message |-> <<"far">>, parents |-> {}]

\* A branch of the enumeration: name is Branch::name()'s Option (None when
\* the name is not valid UTF-8), tip the commit it peels to, fault the
\* git2 call on it that fails ("none", "branch", "name", "peel_to_commit",
\* "revwalk", "push").
Br(name, tip, fault) == [name |-> name, tip |-> tip, fault |-> fault]

\* Repository::open(path): whether it opens, whether repo.branches()
\* succeeds, the local branches in enumeration order, and the commits whose
\* object cannot be read.
Repo(path) ==
    CASE path = "a" ->
            [open_ok |-> TRUE, branches_ok |-> TRUE, corrupt |-> {},
             branches |-> << Br(<<"main">>, "c2", "none"), Br(<<"dev">>, "c3", "none") >>]
      [] path = "b" ->
            [open_ok |-> TRUE, branches_ok |-> TRUE, corrupt |-> {},
             branches |-> << Br(<<>>, "c4", "none") >>]
      [] path = "f" ->
            [open_ok |-> TRUE, branches_ok |-> TRUE, corrupt |-> {},
             branches |-> << Br(<<"main">>, "c6", "none") >>]
      [] path = "x" ->
            [open_ok |-> TRUE, branches_ok |-> TRUE, corrupt |-> {},
             branches |-> << Br(<<"main">>, "c1", "none"), Br(<<"wip">>, "c1", "peel_to_commit") >>]
      [] path = "y" ->
            [open_ok |-> TRUE, branches_ok |-> TRUE, corrupt |-> {"c1"},
             branches |-> << Br(<<"main">>, "c2", "none") >>]
      [] OTHER ->
            [open_ok |-> FALSE, branches_ok |-> FALSE, corrupt |-> {},
             branches |-> << >>]

\* The commits a revwalk pushed with tip yields: the tip and its ancestors.
RECURSIVE Ancestors(_)
Ancestors(cs) ==
    LET more == cs \cup UNION { Commit(c).parents : c \in cs }
    IN  IF more = cs THEN cs ELSE Ancestors(more)

Reach(tip) == Ancestors({tip})

----------------------------------------------------------------------------
(* list_commits (lines 8-45) *)

\* RepoAndCommit::new (lines 78-88)
RepoAndCommit_new(repo, branch, c) ==
    [summary |-> IF Commit(c).summary # <<>> THEN Commit(c).summary[1] ELSE "No summary",
     message |-> IF Commit(c).message # <<>> THEN Commit(c).message[1] ELSE "No message",
     author  |-> Commit(c).author,
     commit  |-> c,
     date    |-> Commit(c).date,
     repo    |-> repo,
     branch  |-> branch]

\* line 16: branch.name()?.unwrap_or("No branch")
BranchName(b) == IF b.name # <<>> THEN b.name[1] ELSE "No branch"

\* (mutant) the upper bound taken as exclusive
TimeSkip_ExclusiveUntil(date, tr) == date < tr.start \/ date >= tr.end

\* line 27: the commit is skipped when its date is outside the range
TimeSkip(date, tr) == date < tr.start \/ date > tr.end

\* lines 34-38: the record is skipped when a filter is set and the author
\* string does not contain it
AuthorSkip(rec, author) == author # <<>> /\ ~Contains(rec.author, author[1])

\* (mutant) a commit already listed from another branch is not listed again
Push_Dedup(list, rec) ==
    IF \E k \in 1..Len(list) : list[k].commit = rec.commit THEN list
    ELSE Append(list, rec)

\* line 40: commits.push(repo_and_commit)
Push(list, rec) == Append(list, rec)

\* line 132: commits.extend(list_commits(..)?)
Extend(list, more) == list \o more

\* (mutant) an unknown format falls back to the default
FormatOf_Lenient(o) ==
    IF o.format # <<>> /\ o.format[1] \in {"flat", "daily"} THEN o.format[1] ELSE "flat"

\* line 127: opts.format.unwrap_or("flat")
FormatOf(o) == IF o.format # <<>> THEN o.format[1] ELSE "flat"

CurPath   == opts.repositories[ri]
CurBranch == Repo(CurPath).branches[bi]

\* (mutant) the error is dropped and the run goes on with what it has
Fail_Swallow(site, arg) ==
    /\ pc' = "sort"
    /\ err' = err

\* the ? operator and bail!: main returns the error
Fail(site, arg) ==
    /\ pc' = "error"
    /\ err' = <<[site |-> site, arg |-> arg]>>

\* (mutant) the format is validated with the other arguments
ParseArgs_FormatFirst ==
    /\ pc = "start"
    /\ LET tr == parse_time_range(opts.since, opts.until)
       IN  IF tr = <<>>
           THEN /\ Fail("parse_time_range", "")
                /\ UNCHANGED <<time_range, format, ri>>
           ELSE IF FormatOf(opts) \notin {"flat", "daily"}
           THEN /\ Fail("unknown format", FormatOf(opts))
                /\ UNCHANGED <<time_range, format, ri>>
           ELSE /\ time_range' = tr[1]
                /\ format' = FormatOf(opts)
                /\ ri' = 1
                /\ pc' = IF Len(opts.repositories) = 0 THEN "sort" ELSE "list"
                /\ err' = err
    /\ UNCHANGED <<opts, commits, lc, bi, seen, pi, cur, out>>

\* lines 121-128: parse the range, default the format
ParseArgs ==
    /\ pc = "start"
    /\ LET tr == parse_time_range(opts.since, opts.until)
       IN  IF tr = <<>>
           THEN /\ Fail("parse_time_range", "")
                /\ UNCHANGED <<time_range, format, ri>>
           ELSE /\ time_range' = tr[1]
                /\ format' = FormatOf(opts)
                /\ ri' = 1
                /\ pc' = IF Len(opts.repositories) = 0 THEN "sort" ELSE "list"
                /\ err' = err
    /\ UNCHANGED <<opts, commits, lc, bi, seen, pi, cur, out>>

\* lines 9-11: open the repository and start the enumeration of its
\* local branches
OpenRepository ==
    /\ pc = "list"
    /\ IF ~Repo(CurPath).open_ok
       THEN Fail("Repository::open", CurPath) /\ UNCHANGED <<lc, bi>>
       ELSE IF ~Repo(CurPath).branches_ok
       THEN Fail("branches", CurPath) /\ UNCHANGED <<lc, bi>>
       ELSE /\ lc' = <<>>
            /\ bi' = 1
            /\ pc' = "branches"
            /\ err' = err
    /\ UNCHANGED <<opts, time_range, format, commits, ri, seen, pi, cur, out>>

\* lines 13-20: the next branch of the enumeration: its name, its tip, a
\* revwalk from the tip
StartBranch ==
    /\ pc = "branches"
    /\ bi <= Len(Repo(CurPath).branches)
    /\ IF CurBranch.fault # "none"
       THEN Fail(CurBranch.fault, CurPath) /\ seen' = seen
       ELSE /\ seen' = {}
            /\ pc' = "walk"
            /\ err' = err
    /\ UNCHANGED <<opts, time_range, format, commits, ri, lc, bi, pi, cur, out>>

\* lines 22-41: the revwalk yields one more commit, in an order of its
\* own; the commit is read, tested and, if kept, pushed
VisitCommit ==
    /\ pc = "walk"
    /\ \E c \in Reach(CurBranch.tip) \ seen :
         IF c \in Repo(CurPath).corrupt
         THEN Fail("find_commit", c) /\ UNCHANGED <<seen, lc>>
         ELSE LET rec == RepoAndCommit_new(CurPath, BranchName(CurBranch), c)
              IN  /\ seen' = seen \cup {c}
                  /\ lc' = IF TimeSkip(Commit(c).date, time_range) THEN lc
                           ELSE IF AuthorSkip(rec, opts.author) THEN lc
                           ELSE Push(lc, rec)
                  /\ UNCHANGED <<pc, err>>
    /\ UNCHANGED <<opts, time_range, format, commits, ri, bi, pi, cur, out>>

\* line 22/41: the revwalk is exhausted, on to the next branch
EndWalk ==
    /\ pc = "walk"
    /\ Reach(CurBranch.tip) \ seen = {}
    /\ bi' = bi + 1
    /\ seen' = {}
    /\ pc' = "branches"
    /\ UNCHANGED <<opts, time_range, format, commits, ri, lc, pi, cur, out, err>>

\* line 44 and lines 131-133: list_commits returns Ok(commits), main appends
\* them and goes on to the next repository argument
EndRepository ==
    /\ pc = "branches"
    /\ bi > Len(Repo(CurPath).branches)
    /\ commits' = Extend(commits, lc)
    /\ lc' = <<>>
    /\ ri' = ri + 1
    /\ pc' = IF ri + 1 > Len(opts.repositories) THEN "sort" ELSE "list"
    /\ UNCHANGED <<opts, time_range, format, bi, seen, pi, cur, out, err>>

----------------------------------------------------------------------------
(* main: sort and render (lines 134-170) *)

\* (mutant) a record goes before the records of equal key
RECURSIVE InsertByKey_Unstable(_, _)
InsertByKey_Unstable(s, x) ==
    IF s = <<>> THEN <<x>>
    ELSE IF s[Len(s)].date < x.date THEN Append(s, x)
    ELSE Append(InsertByKey_Unstable(SubSeq(s, 1, Len(s) - 1), x), s[Len(s)])

\* (mutant) the records are left in the order they were produced in
SortByKey_Unsorted(s) == s

\* Vec::sort_by_key(|c| c.date): a stable sort, here by insertion: a record
\* goes behind every record whose key is not greater.
RECURSIVE InsertByKey(_, _)
InsertByKey(s, x) ==
    IF s = <<>> THEN <<x>>
    ELSE IF s[Len(s)].date <= x.date THEN Append(s, x)
    ELSE Append(InsertByKey(SubSeq(s, 1, Len(s) - 1), x), s[Len(s)])

RECURSIVE SortByKey(_)
SortByKey(s) ==
    IF s = <<>> THEN <<>>
    ELSE InsertByKey(SortByKey(SubSeq(s, 1, Len(s) - 1)), s[Len(s)])

\* RepoAndCommit::date (lines 90-92): Some(date-time), or None where the
\* unwrap panics
date(rec) == from_timestamp_opt(rec.date)

\* (mutant) the groups are keyed by date and time of day
GroupKey_DateTime(rec) == date(rec)[1]

\* line 152: the key of group_by, |x| x.date().date()
GroupKey(rec) == date(rec)[1].date

\* lines 138-146
FlatLine(rec) ==
    [kind |-> "flat", date |-> date(rec)[1], repo |-> rec.repo, branch |-> rec.branch,
     commit |-> rec.commit, summary |-> rec.summary, author |-> rec.author]

\* line 155
HeaderLine(d) == [kind |-> "header", date |-> d]

\* lines 157-161
DailyLine(rec) ==
    [kind |-> "daily", time |-> date(rec)[1].time, repo |-> rec.repo,
     branch |-> rec.branch, summary |-> rec.summary, author |-> rec.author]

\* line 134
SortCommits ==
    /\ pc = "sort"
    /\ commits' = SortByKey(commits)
    /\ pc' = "render"
    /\ pi' = 1
    /\ UNCHANGED <<opts, time_range, format, ri, lc, bi, seen, cur, out, err>>

\* lines 136-148: one pass of the loop of the flat layout
RenderFlat ==
    /\ pc = "render"
    /\ format = "flat"
    /\ pi <= Len(commits)
    /\ IF date(commits[pi]) = <<>>
       THEN pc' = "panic" /\ UNCHANGED <<out, pi>>
       ELSE /\ out' = Append(out, FlatLine(commits[pi]))
            /\ pi' = pi + 1
            /\ pc' = pc
    /\ UNCHANGED <<opts, time_range, format, commits, ri, lc, bi, seen, cur, err>>

\* lines 149-164: group_by over the sorted records is one pass: the key of
\* the next record is computed, a record whose key differs from the
\* current group's opens a group, whose header is printed before it
RenderDaily ==
    /\ pc = "render"
    /\ format = "daily"
    /\ pi <= Len(commits)
    /\ IF date(commits[pi]) = <<>>
       THEN pc' = "panic" /\ UNCHANGED <<out, pi, cur>>
       ELSE LET key == GroupKey(commits[pi])
            IN  /\ out' = IF cur = <<key>> THEN Append(out, DailyLine(commits[pi]))
                          ELSE out \o <<HeaderLine(key), DailyLine(commits[pi])>>
                /\ cur' = <<key>>
                /\ pi' = pi + 1
                /\ pc' = pc
    /\ UNCHANGED <<opts, time_range, format, commits, ri, lc, bi, seen, err>>

\* line 170: Ok(())
RenderDone ==
    /\ pc = "render"
    /\ format \in {"flat", "daily"}
    /\ pi > Len(commits)
    /\ pc' = "done"
    /\ UNCHANGED <<opts, time_range, format, commits, ri, lc, bi, seen, pi, cur, out, err>>

\* lines 165-167: bail!("unknown format: {}", format)
UnknownFormat ==
    /\ pc = "render"
    /\ format \notin {"flat", "daily"}
    /\ Fail("unknown format", format)
    /\ UNCHANGED <<opts, time_range, format, commits, ri, lc, bi, seen, pi, cur, out>>

----------------------------------------------------------------------------

Init ==
    /\ opts \in [since : SinceArgs, until : UntilArgs, format : FormatArgs,
                 author : AuthorArgs, repositories : RepoArgs]
    /\ pc = "start"
    /\ time_range = [start |-> 0, end |-> 0]
    /\ format = ""
    /\ commits = <<>>
    /\ ri = 0
    /\ lc = <<>>
    /\ bi = 0
    /\ seen = {}
    /\ pi = 0
    /\ cur = <<>>
    /\ out = <<>>
    /\ err = <<>>

Next ==
    \/ ParseArgs
    \/ OpenRepository
    \/ StartBranch
    \/ VisitCommit
    \/ EndWalk
    \/ EndRepository
    \/ SortCommits
    \/ RenderFlat
    \/ RenderDaily
    \/ RenderDone
    \/ UnknownFormat

Spec == Init /\ [][Next]_vars

----------------------------------------------------------------------------
(* Vocabulary of the properties *)

ArgIdx == 1..Len(opts.repositories)

PathOf(i) == opts.repositories[i]

\* f occurs in a as a contiguous run of characters
IsSubstring(f, a) ==
    \E i \in 0..Len(a) : \E j \in i..Len(a) : SubSeq(a, i + 1, j) = f

\* the test of the filter stage on a commit: inside [since, until], both
\* ends included, and the author filter, if any, occurs in the author
Passes(c) ==
    /\ time_range.start <= Commit(c).date
    /\ Commit(c).date <= time_range.end
    /\ (opts.author # <<>> => IsSubstring(opts.author[1], Commit(c).author))

NameShown(b) == IF b.name = <<>> THEN "No branch" ELSE b.name[1]

SummaryShown(c) == IF Commit(c).summary = <<>> THEN "No summary" ELSE Commit(c).summary[1]

BranchNames == UNION { { NameShown(Repo(p).branches[j]) : j \in 1..Len(Repo(p).branches) } : p \in Paths }

\* a repository none of whose git2 calls fails
Healthy(p) ==
    /\ Repo(p).open_ok
    /\ Repo(p).branches_ok
    /\ \A j \in 1..Len(Repo(p).branches) :
         /\ Repo(p).branches[j].fault = "none"
         /\ Reach(Repo(p).branches[j].tip) \cap Repo(p).corrupt = {}

Count(seq, P(_)) == Cardinality({ k \in 1..Len(seq) : P(seq[k]) })

\* the number of (repository argument, local branch) pairs at path p whose
\* branch is shown as n and reaches commit c
Occurrences(p, n, c) ==
    Cardinality({ i \in ArgIdx : PathOf(i) = p })
      * Cardinality({ j \in 1..Len(Repo(p).branches) :
                        /\ NameShown(Repo(p).branches[j]) = n
                        /\ c \in Reach(Repo(p).branches[j].tip) })

\* seconds since the epoch of a printed date and time of day
SecsOf(d, t) ==
    DaysFromCivil(d.year, d.month, d.day) * 86400 + t.hour * 3600 + t.min * 60 + t.sec

\* the instants the printed record lines show, in print order (a daily line
\* shows its time of day under the date of the header above it)
RECURSIVE Stamps(_, _)
Stamps(lines, hdr) ==
    IF lines = <<>> THEN <<>>
    ELSE LET l == Head(lines)
         IN  IF l.kind = "header" THEN Stamps(Tail(lines), l.date)
             ELSE IF l.kind = "flat"
             THEN <<SecsOf(l.date.date, l.date.time)>> \o Stamps(Tail(lines), hdr)
             ELSE <<SecsOf(hdr, l.time)>> \o Stamps(Tail(lines), hdr)

\* line l is the printed form of commit c listed from branch n of path p
LineIs(l, p, n, c) ==
    /\ l.kind \in {"flat", "daily"}
    /\ l.repo = p /\ l.branch = n
    /\ l.author = Commit(c).author /\ l.summary = SummaryShown(c)
    /\ IF l.kind = "flat"
       THEN l.commit = c /\ SecsOf(l.date.date, l.date.time) = Commit(c).date
       ELSE SecsOf([year |-> 1970, month |-> 1, day |-> 1], l.time) = Commit(c).date % 86400

NonDecreasing(ts) == \A k \in 1..(Len(ts) - 1) : ts[k] <= ts[k + 1]

----------------------------------------------------------------------------
(* C1: a visited commit gives a record exactly when it passes the filter *)

C1_Step ==
    \A c \in CommitIds :
        (pc = "walk" /\ c \notin seen /\ c \in seen') =>
            /\ pc' = "walk"
            /\ IF Passes(c)
               THEN /\ Len(lc') = Len(lc) + 1
                    /\ SubSeq(lc', 1, Len(lc)) = lc
                    /\ lc'[Len(lc')].commit = c
                    /\ lc'[Len(lc')].date = Commit(c).date
                    /\ lc'[Len(lc')].author = Commit(c).author
               ELSE lc' = lc

C1_WalkComplete ==
    (pc = "walk" /\ pc' = "branches") => seen = Reach(CurBranch.tip)

C1_Output ==
    pc = "done" =>
        \A i \in ArgIdx : \A j \in 1..Len(Repo(PathOf(i)).branches) :
            \A c \in Reach(Repo(PathOf(i)).branches[j].tip) :
                (\E k \in 1..Len(out) :
                    LineIs(out[k], PathOf(i), NameShown(Repo(PathOf(i)).branches[j]), c))
                  <=> Passes(c)

\* C1: every commit a branch walk visits is pushed as a record iff
\* since <= t <= until (both ends included) and the author filter, when
\* set, is a substring of its author (the empty filter keeps all); a
\* skipped commit does not end the walk, which goes on until every
\* reachable commit was tested; and in a run that completes, the output
\* has a line for a (repository, branch, commit) iff the commit passes.
C1_FilterIff == [][C1_Step /\ C1_WalkComplete /\ C1_Output']_vars

C1_Witness ==
    /\ pc = "done"
    /\ opts.author = << <<"a","@","x">> >>
    /\ time_range.end = Commit("c1").date
    /\ \E k \in 1..Len(out) : LineIs(out[k], "a", "main", "c1")
    /\ \E i \in ArgIdx : PathOf(i) = "b"

----------------------------------------------------------------------------
(* C2: the records handed to the presenter, and the lines, are sorted *)

\* C2: after the sort the records are in non-decreasing timestamp order,
\* and in a run that completes the instants shown by the printed lines, in
\* flat and in daily mode, are non-decreasing and are those of the records.
C2_SortedOutput ==
    /\ (pc \in {"render", "done", "panic"} =>
            NonDecreasing([k \in 1..Len(commits) |-> commits[k].date]))
    /\ (pc = "done" =>
            /\ NonDecreasing(Stamps(out, <<>>))
            /\ Stamps(out, <<>>) = [k \in 1..Len(commits) |-> commits[k].date])

C2_Witness ==
    /\ pc = "done"
    /\ Len(opts.repositories) = 2
    /\ PathOf(1) = "b" /\ PathOf(2) = "a"
    /\ \E k \in 1..(Len(commits) - 1) : commits[k].date < commits[k + 1].date
    /\ Len(Stamps(out, <<>>)) >= 4

----------------------------------------------------------------------------
(* C3: the sort is stable and records are produced in argument, branch and
   visit order *)

SameDate(seq, t) == SelectSeq(seq, LAMBDA r : r.date = t)

C3_Step ==
    /\ (pc = "sort" /\ pc' = "render") =>
            /\ Len(commits') = Len(commits)
            /\ \A k \in 1..Len(commits) :
                   SameDate(commits', commits[k].date) = SameDate(commits, commits[k].date)
    \* a record is produced at the end of the list of the branch walked
    /\ (pc = "walk" /\ lc' # lc) =>
            /\ SubSeq(lc', 1, Len(lc)) = lc
            /\ Len(lc') = Len(lc) + 1
            /\ lc'[Len(lc')].repo = PathOf(ri)
            /\ lc'[Len(lc')].branch = NameShown(Repo(PathOf(ri)).branches[bi])
    \* branches are walked in enumeration order, repositories in argument
    \* order, and a repository's records go behind those of earlier ones
    /\ (pc = "walk" /\ pc' = "branches") => bi' = bi + 1 /\ ri' = ri /\ lc' = lc
    /\ (pc = "branches" /\ pc' = "walk") => bi' = bi /\ ri' = ri /\ lc' = lc
    /\ (pc = "branches" /\ pc' \in {"list", "sort"}) =>
            /\ ri' = ri + 1
            /\ commits' = commits \o lc
    /\ (pc = "list" /\ pc' = "branches") => ri' = ri /\ bi' = 1 /\ lc' = <<>>
    /\ (pc \notin {"branches", "sort"}) => commits' = commits

\* C3: the sort keeps records of equal timestamp in the order they were
\* produced in: for every timestamp the records bearing it are the same
\* sequence before and after the sort; and records are produced by
\* repository argument order, then branch enumeration order, then the
\* order of the walk.
C3_StableSort == [][C3_Step]_vars

C3_Witness ==
    /\ pc = "render"
    /\ \E k \in 1..(Len(commits) - 1) :
          /\ commits[k].date = commits[k + 1].date
          /\ commits[k].repo = "b" /\ commits[k + 1].repo = "a"
    /\ \E k \in 1..(Len(commits) - 1) :
          /\ commits[k].date = commits[k + 1].date
          /\ commits[k].branch = "main" /\ commits[k + 1].branch = "dev"

----------------------------------------------------------------------------
(* C4: no deduplication *)

\* C4: after the walks, a commit that passes the filters has exactly one
\* record per (repository argument, local branch reaching it), tagged with
\* that repository and branch, and none if it does not pass; in flat mode
\* a completed run prints exactly that many lines for it.
C4_NoDedup ==
    \A p \in Paths : \A n \in BranchNames : \A c \in CommitIds :
        LET want == IF Passes(c) THEN Occurrences(p, n, c) ELSE 0
        IN  /\ (pc \in {"sort", "render", "done"} =>
                  Count(commits, LAMBDA r : r.repo = p /\ r.branch = n /\ r.commit = c) = want)
            /\ (pc = "done" /\ format = "flat" =>
                  Count(out, LAMBDA l : LineIs(l, p, n, c)) = want)

C4_Witness ==
    /\ pc = "done" /\ format = "flat"
    /\ opts.repositories = <<"a", "a">>
    /\ Count(out, LAMBDA l : LineIs(l, "a", "main", "c1")) = 2
    /\ Count(out, LAMBDA l : LineIs(l, "a", "dev", "c1")) = 2

----------------------------------------------------------------------------
(* C5: every repository error is fatal and leaves no partial report *)

RepoSites ==
    {"Repository::open", "branches", "branch", "name", "peel_to_commit",
     "revwalk", "push", "find_commit"}

\* C5: a run that ended in an error has printed nothing; a repository
\* argument with a failing open, branch or walk step is never passed: the
\* run neither goes on to a later argument nor reaches the sort or the
\* rendering; and the error of a failed listing is raised at that argument.
C5_FatalNoPartial ==
    /\ (pc = "error" => out = <<>>)
    /\ \A i \in ArgIdx :
          ~Healthy(PathOf(i)) => (ri <= i /\ pc \notin {"sort", "render", "done", "panic"})
    /\ (pc = "error" /\ err[1].site \in RepoSites) =>
          (ri \in ArgIdx /\ ~Healthy(PathOf(ri)))
    /\ (pc = "error" <=> err # <<>>)

C5_Witness ==
    /\ pc = "error"
    /\ err[1].site = "find_commit"
    /\ ri = 2
    /\ Len(commits) > 0
    /\ Len(lc) > 0
    /\ out = <<>>

----------------------------------------------------------------------------
(* C6: an unknown format is an error without output; the default is flat *)

BadFormat == opts.format # <<>> /\ opts.format[1] \notin {"flat", "daily"}

ParseFailed == pc = "error" /\ err[1].site = "parse_time_range"

C6_State ==
    /\ BadFormat => (out = <<>> /\ pc \notin {"done", "panic"})
    /\ (pc = "error" /\ err[1].site = "unknown format") =>
          (BadFormat /\ err[1].arg = opts.format[1])
    /\ (opts.format = <<>> /\ pc # "start" /\ ~ParseFailed) => format = "flat"
    /\ (opts.format = <<>> /\ pc = "done") =>
          \A k \in 1..Len(out) : out[k].kind = "flat"

C6_Step ==
    (pc = "render" /\ BadFormat) =>
        /\ pc' = "error"
        /\ err' = <<[site |-> "unknown format", arg |-> opts.format[1]]>>
        /\ out' = <<>>

\* C6: when the format is neither "flat" nor "daily", the rendering step
\* ends the run with the unknown-format error, which carries the format
\* string given, and no line is printed at any point of that run; when no
\* format is given the format is "flat" and the lines are flat lines.
C6_UnknownFormat == [][C6_Step /\ C6_State']_vars

C6_Witness ==
    /\ pc = "error"
    /\ err = <<[site |-> "unknown format", arg |-> "json"]>>
    /\ Len(commits) > 1
    /\ out = <<>>

----------------------------------------------------------------------------
(* C7: the daily layout *)

DayOf(t) == t \div 86400

TimeOfDay(t) ==
    [hour |-> (t % 86400) \div 3600, min |-> ((t % 86400) % 3600) \div 60, sec |-> t % 60]

Min(S) == CHOOSE x \in S : \A y \in S : x <= y

\* for each day of days, ascending: a header, then the records of that
\* day in the order they have in recs
RECURSIVE DailyReport(_, _)
DailyReport(recs, days) ==
    IF days = {} THEN <<>>
    ELSE LET d    == Min(days)
             mine == SelectSeq(recs, LAMBDA r : DayOf(r.date) = d)
         IN  <<[kind |-> "header", date |-> CivilFromDays(d)]>>
               \o [k \in 1..Len(mine) |->
                     [kind |-> "daily", time |-> TimeOfDay(mine[k].date),
                      repo |-> mine[k].repo, branch |-> mine[k].branch,
                      summary |-> mine[k].summary, author |-> mine[k].author]]
               \o DailyReport(recs, days \ {d})

DaysOf(recs) == { DayOf(recs[k].date) : k \in 1..Len(recs) }

\* C7: a completed daily run prints, for each calendar date that a kept
\* record falls on, in ascending date order, one header followed by
\* exactly the kept records of that date in timestamp order; so there are
\* as many headers as distinct dates.
C7_DailyGroups ==
    (pc = "done" /\ format = "daily") =>
        /\ out = DailyReport(commits, DaysOf(commits))
        /\ Count(out, LAMBDA l : l.kind = "header") = Cardinality(DaysOf(commits))
        /\ NonDecreasing(Stamps(out, <<>>))

C7_Witness ==
    /\ pc = "done" /\ format = "daily"
    /\ Count(out, LAMBDA l : l.kind = "header") = 2
    /\ \E k \in 1..(Len(commits) - 1) :
          /\ DayOf(commits[k].date) = DayOf(commits[k + 1].date)
          /\ commits[k].date < commits[k + 1].date
    /\ Len(out) >= 6

----------------------------------------------------------------------------
(* C8: the default range *)

NoFilters == opts.since = <<>> /\ opts.until = <<>> /\ opts.author = <<>>

\* C8: with no --since, --until and --author the range is [0, max] and no
\* visited commit is filtered out: a completed flat run prints one line
\* per (repository argument, local branch, commit reachable from its tip).
C8_DefaultsKeepAll ==
    (NoFilters /\ pc = "done" /\ format = "flat") =>
        /\ time_range = [start |-> 0, end |-> TimeMax]
        /\ \A p \in Paths : \A n \in BranchNames : \A c \in CommitIds :
              Count(out, LAMBDA l : LineIs(l, p, n, c)) = Occurrences(p, n, c)

----------------------------------------------------------------------------
(* C9: an inverted range *)

\* both bounds are given and parse, the first to a later instant
Inverted ==
    /\ opts.since # <<>> /\ opts.until # <<>>
    /\ LET s == parse_lenient(opts.since[1])
           u == parse_lenient(opts.until[1])
       IN  s # <<>> /\ u # <<>> /\ s[1] > u[1]

\* the parsed range of such a run
InvertedRange ==
    /\ opts.since # <<>> /\ opts.until # <<>>
    /\ pc # "start" /\ ~ParseFailed
    /\ time_range.start > time_range.end

C9_State ==
    InvertedRange =>
        /\ commits = <<>> /\ lc = <<>> /\ out = <<>>
        /\ pc \notin {"panic"}
        /\ pc \in {"sort", "render", "done"} =>
              (ri = Len(opts.repositories) + 1 /\ \A i \in ArgIdx : Healthy(PathOf(i)))

C9_Step ==
    /\ (pc = "start" /\ Inverted) =>
          /\ pc' \in {"list", "sort"}
          /\ time_range' = [start |-> parse_lenient(opts.since[1])[1],
                            end   |-> parse_lenient(opts.until[1])[1]]
          /\ InvertedRange'
    /\ pc # "start" => time_range' = time_range
    /\ InvertedRange =>
          /\ (pc = "list" /\ Healthy(PathOf(ri))) => pc' = "branches"
          /\ (pc = "walk" /\ pc' = "branches") => seen = Reach(CurBranch.tip)
          /\ (pc = "render" /\ ~BadFormat) => pc' = "done"

\* C9: when both bounds parse and since > until, parsing succeeds with
\* that range, every repository argument is still opened and every
\* reachable commit of every branch visited, no record is kept, and with a
\* known format the run completes with nothing printed.
C9_InvertedRange == [][C9_Step /\ C9_State']_vars

C9_Witness ==
    /\ Inverted /\ InvertedRange
    /\ pc = "done"
    /\ opts.repositories = <<"a", "b">>
    /\ out = <<>>

----------------------------------------------------------------------------
(* C10: the order in which failures are detected *)

ParseFails ==
    \/ opts.since # <<>> /\ parse_lenient(opts.since[1]) = <<>>
    \/ opts.until # <<>> /\ parse_lenient(opts.until[1]) = <<>>

\* C10: an unparseable bound ends the run before any repository is
\* opened; otherwise the first failing repository argument ends it before
\* a later one is opened; the unknown-format error is raised only after
\* every argument was walked and the records sorted, so with a failing
\* repository and an unknown format the error is the repository's.
C10_FailureOrder ==
    /\ ParseFails => (pc \in {"start", "error"} /\ ri = 0 /\ (pc = "error" => ParseFailed))
    /\ ParseFailed => ParseFails
    /\ (pc = "error" /\ err[1].site \in RepoSites) =>
          /\ ri \in ArgIdx
          /\ ~Healthy(PathOf(ri))
          /\ \A i \in 1..(ri - 1) : Healthy(PathOf(i))
    /\ (pc = "error" /\ err[1].site = "unknown format") =>
          /\ ri = Len(opts.repositories) + 1
          /\ \A i \in ArgIdx : Healthy(PathOf(i))
          /\ NonDecreasing([k \in 1..Len(commits) |-> commits[k].date])
    /\ (pc = "error" /\ ~ParseFails /\ \E i \in ArgIdx : ~Healthy(PathOf(i))) =>
          err[1].site \in RepoSites

C10_Witness ==
    /\ pc = "error"
    /\ BadFormat
    /\ err[1].site = "peel_to_commit"
    /\ ri = 2
    /\ PathOf(1) = "a"

====
